---- MODULE Spec2Model ----
(***************************************************************************)
(* Case Router Bot (polling mode), src/main.py.                            *)
(*                                                                         *)
(* Text is a sequence of one-character strings, so that the regular        *)
(* expressions of the program are computed position by position.           *)
(* Timestamps are integers: the messages that reach the source channel     *)
(* after startup carry 1, 2, 3, ... and the startup time is 0.             *)
(***************************************************************************)
EXTENDS Integers, Sequences, FiniteSets, TLC

\* ------------------------------------------------------------------ bounds
\* messages that reach the source channel in a run of Spec
MaxMsgs == 2
\* messages that reach the source channel in a run of SpecPoll
MaxBurst == 22
\* channels the platform holds at most
MaxChannels == 3
\* channels one page of the listing carries at most (the code asks for 1000)
PageLimit == 2

\* --------------------------------------------------------- program constants
\* "limit": 20 of the history fetch
HistoryLimit == 20

None == "None"
NoTs == 0 - 1

\* ------------------------------------------------------------- characters
Digits == {"0", "1", "2", "3", "4", "5", "6", "7", "8", "9"}
Lower == {"a", "b", "c", "d", "e", "f", "g", "h", "i", "j", "k", "l", "m",
          "n", "o", "p", "q", "r", "s", "t", "u", "v", "w", "x", "y", "z"}
Upper == {"A", "B", "C", "D", "E", "F", "G", "H", "I", "J", "K", "L", "M",
          "N", "O", "P", "Q", "R", "S", "T", "U", "V", "W", "X", "Y", "Z"}
\* \s of the re module
Spaces == {" ", "\t", "\n", "\r", "\f"}
\* \d
IsDigit(c) == c \in Digits
\* [A-Za-z]
IsAlpha(c) == c \in Lower \cup Upper
\* \s
IsSpace(c) == c \in Spaces
\* \w
IsWord(c) == c \in Digits \cup Lower \cup Upper \cup {"_"}

Min(a, b) == IF a < b THEN a ELSE b
Max(a, b) == IF a < b THEN b ELSE a

\* s[i:], 1-based
From(s, i) == SubSeq(s, i, Len(s))

\* the character at i, or "" outside the string
At(s, i) == IF i >= 1 /\ i <= Len(s) THEN s[i] ELSE ""

RECURSIVE LStrip(_)
LStrip(s) == IF s # <<>> /\ IsSpace(s[1]) THEN LStrip(Tail(s)) ELSE s

RECURSIVE RStrip(_)
RStrip(s) ==
    IF s # <<>> /\ IsSpace(s[Len(s)]) THEN RStrip(SubSeq(s, 1, Len(s) - 1)) ELSE s

\* str.strip()
Strip(s) == RStrip(LStrip(s))

\* the position after the run of whitespace that starts at i (\s*, which never
\* has to give a character back: what follows it is never whitespace)
RECURSIVE SkipSpaces(_, _)
SkipSpaces(s, i) == IF IsSpace(At(s, i)) THEN SkipSpaces(s, i + 1) ELSE i

\* \d{n} at i
DigitsAt(s, i, n) == \A k \in 0..(n - 1) : IsDigit(At(s, i + k))

\* ------------------------------------------------------ parse_quo_message
\* the absent text (None); no text of the program is this sequence
NoText == <<"None">>
\* `not s` for a string or None
Falsy(s) == s = NoText \/ s = <<>>

Unknown == <<"U", "n", "k", "n", "o", "w", "n">>

\* re.match(r"^\(\d{3}\)", s)
StartsWithAreaCode(s) == At(s, 1) = "(" /\ DigitsAt(s, 2, 3) /\ At(s, 5) = ")"

\* \s*\(\d{3}\)\s*\d{3}-\d{4} matched at i
PhoneAt(s, i) ==
    LET j == SkipSpaces(s, i)
        k == SkipSpaces(s, j + 5)
    IN  /\ At(s, j) = "("
        /\ DigitsAt(s, j + 1, 3)
        /\ At(s, j + 4) = ")"
        /\ DigitsAt(s, k, 3)
        /\ At(s, k + 3) = "-"
        /\ DigitsAt(s, k + 4, 4)

\* the lengths group(1) of ^(.+?)\s*\(\d{3}\)\s*\d{3}-\d{4} can take: "." is any
\* character but a newline, and the phone number follows
HeaderLengths(s) ==
    {k \in 1..Len(s) : (\A i \in 1..k : s[i] # "\n") /\ PhoneAt(s, k + 1)}

\* the lazy (.+?) takes the shortest
HeaderLength(s) == CHOOSE k \in HeaderLengths(s) : \A j \in HeaderLengths(s) : k <= j

\* \b at i: a word character on exactly one side of the gap before s[i]
BoundaryAt(s, i) == IsWord(At(s, i - 1)) # IsWord(At(s, i))

\* the length (\d{3,5}) matches at i without the two \b
CaseLenAtUnbounded(s, i) ==
    IF DigitsAt(s, i, 5) THEN 5 ELSE IF DigitsAt(s, i, 4) THEN 4
    ELSE IF DigitsAt(s, i, 3) THEN 3 ELSE 0

\* the length \b(\d{3,5})\b matches at i (greedy: 5, then 4, then 3), 0 for none
CaseLenAt(s, i) ==
    LET ok(n) == BoundaryAt(s, i) /\ DigitsAt(s, i, n) /\ BoundaryAt(s, i + n)
    IN  IF ok(5) THEN 5 ELSE IF ok(4) THEN 4 ELSE IF ok(3) THEN 3 ELSE 0

\* re.findall(r"\b(\d{3,5})\b", s), scanning from i
RECURSIVE FindCaseNumbers(_, _)
FindCaseNumbers(s, i) ==
    IF i > Len(s) THEN <<>>
    ELSE LET n == CaseLenAt(s, i)
         IN  IF n = 0 THEN FindCaseNumbers(s, i + 1)
             ELSE <<SubSeq(s, i, i + n - 1)>> \o FindCaseNumbers(s, i + n)

\* the length of the longest prefix of [A-Za-z\s] characters
RECURSIVE NamePrefixLen(_, _)
NamePrefixLen(s, i) ==
    IF IsAlpha(At(s, i)) \/ IsSpace(At(s, i)) THEN NamePrefixLen(s, i + 1) ELSE i - 1

\* name_match.group(1).strip() if name_match else "Unknown"
ContactName(part) ==
    LET n == NamePrefixLen(part, 1)
    IN  IF n = 0 THEN Unknown ELSE Strip(SubSeq(part, 1, n))

\* the first position at or after i that holds c, 0 for none
RECURSIVE IndexFrom(_, _, _)
IndexFrom(s, c, i) ==
    IF i > Len(s) THEN 0 ELSE IF s[i] = c THEN i ELSE IndexFrom(s, c, i + 1)

\* where group(1) of →\s*RJL[^)]+\)\s*(.*) starts when the pattern is matched at
\* p, 0 when it does not match there
BodyStartAt(s, p) ==
    LET j == SkipSpaces(s, p + 1)
        q == IndexFrom(s, ")", j + 3)
    IN  IF /\ At(s, p) = "→"
           /\ At(s, j) = "R" /\ At(s, j + 1) = "J" /\ At(s, j + 2) = "L"
           /\ q >= j + 4
        THEN SkipSpaces(s, q + 1)
        ELSE 0

\* re.search: the leftmost position where the pattern matches
RECURSIVE BodyStart(_, _)
BodyStart(s, p) ==
    IF p > Len(s) THEN 0
    ELSE IF BodyStartAt(s, p) # 0 THEN BodyStartAt(s, p) ELSE BodyStart(s, p + 1)

\* body_match.group(1).strip() if body_match else text
MessageBody(text) ==
    LET b == BodyStart(text, 1)
    IN  IF b = 0 THEN text ELSE Strip(From(text, b))

Unroutable == [contact_name |-> NoText, case_numbers |-> <<>>, message_body |-> NoText]

parse_quo_message(text) ==
    IF StartsWithAreaCode(Strip(text)) THEN Unroutable
    ELSE IF HeaderLengths(text) = {} THEN Unroutable
    ELSE LET contact_part == Strip(SubSeq(text, 1, HeaderLength(text)))
             case_numbers == FindCaseNumbers(contact_part, 1)
         IN  IF case_numbers = <<>> THEN Unroutable
             ELSE [contact_name |-> ContactName(contact_part),
                   case_numbers |-> case_numbers,
                   message_body |-> MessageBody(text)]

\* ------------------------------------------------------- get_message_text
\* the first of text, fallback, pretext that an attachment of the list carries
RECURSIVE AttachmentText(_)
AttachmentText(atts) ==
    IF atts = <<>> THEN <<>>
    ELSE LET att == Head(atts)
         IN  IF att.text # <<>> THEN att.text
             ELSE IF att.fallback # <<>> THEN att.fallback
             ELSE IF att.pretext # <<>> THEN att.pretext
             ELSE AttachmentText(Tail(atts))

\* the inline elements of a rich_text block, in the order the two loops visit them
RECURSIVE Flatten(_)
Flatten(elements) ==
    IF elements = <<>> THEN <<>> ELSE Head(elements) \o Flatten(Tail(elements))

\* what the loop over the blocks returns: the text of the first inline element
\* of type "text" of a rich_text block (empty or not), or the text of a section
\* that has one
RECURSIVE BlockText(_)
BlockText(blocks) ==
    IF blocks = <<>> THEN <<>>
    ELSE LET block == Head(blocks)
             subs == SelectSeq(Flatten(block.elements), LAMBDA sub : sub.type = "text")
         IN  IF block.type = "rich_text" /\ subs # <<>> THEN subs[1].text
             ELSE IF block.type = "section" /\ block.text # <<>> THEN block.text
             ELSE BlockText(Tail(blocks))

get_message_text(m) ==
    IF m.text # <<>> THEN m.text
    ELSE IF AttachmentText(m.attachments) # <<>> THEN AttachmentText(m.attachments)
    ELSE BlockText(m.blocks)

\* ------------------------------------------------------- find_case_channel
\* the pattern without its "$": "-<case_number>" anywhere in the name
PatternSearchUnanchored(case_number, name) ==
    \E p \in 1..Len(name) :
        /\ name[p] = "-"
        /\ p + Len(case_number) <= Len(name)
        /\ SubSeq(name, p + 1, p + Len(case_number)) = case_number

\* re.compile("-" + re.escape(case_number) + "$").search(name): "$" is the end of
\* the string or the place before a newline that ends it
PatternSearch(case_number, name) ==
    \E p \in 1..Len(name) :
        /\ name[p] = "-"
        /\ p + Len(case_number) <= Len(name)
        /\ SubSeq(name, p + 1, p + Len(case_number)) = case_number
        /\ \/ p + Len(case_number) = Len(name)
           \/ p + Len(case_number) = Len(name) - 1 /\ name[Len(name)] = "\n"

NoChannel == [id |-> None, name |-> NoText]

\* a loop that returns the first channel of the cache, whatever its name
ScanCacheFirst(cache, case_number) ==
    IF cache = <<>> THEN NoChannel
    ELSE [id |-> Head(cache).id, name |-> Head(cache).name]

\* one loop over channel_cache.items(): the first channel the pattern finds
RECURSIVE ScanCache(_, _)
ScanCache(cache, case_number) ==
    IF cache = <<>> THEN NoChannel
    ELSE IF PatternSearch(case_number, Head(cache).name)
         THEN [id |-> Head(cache).id, name |-> Head(cache).name]
         ELSE ScanCache(Tail(cache), case_number)

\* channel_cache[channel["id"]] = channel on a dict that keeps insertion order
RECURSIVE CachePut(_, _)
CachePut(cache, ch) ==
    IF cache = <<>> THEN <<ch>>
    ELSE IF Head(cache).id = ch.id THEN <<ch>> \o Tail(cache)
         ELSE <<Head(cache)>> \o CachePut(Tail(cache), ch)

RECURSIVE CachePutAll(_, _)
CachePutAll(cache, chs) ==
    IF chs = <<>> THEN cache ELSE CachePutAll(CachePut(cache, Head(chs)), Tail(chs))

\* --------------------------------------------- get_tagged_users_from_topic
\* [A-Z0-9]
IsIdChar(c) == c \in Upper \cup Digits

\* the position after the run of [A-Z0-9] that starts at i
RECURSIVE SkipIdChars(_, _)
SkipIdChars(s, i) == IF IsIdChar(At(s, i)) THEN SkipIdChars(s, i + 1) ELSE i

\* the position of the ">" that ends <@(U[A-Z0-9]+)> matched at i, 0 for no match
MentionEndAt(s, i) ==
    LET e == SkipIdChars(s, i + 3)
    IN  IF /\ At(s, i) = "<" /\ At(s, i + 1) = "@" /\ At(s, i + 2) = "U"
           /\ e > i + 3
           /\ At(s, e) = ">"
        THEN e
        ELSE 0

\* re.findall(r"<@(U[A-Z0-9]+)>", topic), scanning from i
RECURSIVE FindMentions(_, _)
FindMentions(s, i) ==
    IF i > Len(s) THEN <<>>
    ELSE LET e == MentionEndAt(s, i)
         IN  IF e = 0 THEN FindMentions(s, i + 1)
             ELSE <<SubSeq(s, i + 2, e - 1)>> \o FindMentions(s, e + 1)

\* " ".join([f"<@{uid}>" for uid in tagged_users])
RECURSIVE JoinMentions(_)
JoinMentions(uids) ==
    IF uids = <<>> THEN <<>>
    ELSE <<"<", "@">> \o Head(uids) \o <<">">>
         \o (IF Tail(uids) = <<>> THEN <<>> ELSE <<" ">> \o JoinMentions(Tail(uids)))

\* the telephone emoji that opens the forwarded message, as one character
Emoji == "U+1F4F1"

\* the f-string of the forwarded message, and the mentions after a blank line
Compose(name, case_number, body, uids) ==
    LET base == <<Emoji, " ", "*">> \o name \o <<"*", " ", "(", "C", "a", "s", "e", " ">>
                \o case_number \o <<")", ":", "\n", "\n">> \o body
        mentions == JoinMentions(uids)
    IN  IF mentions # <<>> THEN base \o <<"\n", "\n">> \o mentions ELSE base

\* -------------------------------------------------------------- the platform
SOURCE_CHANNEL_NAME == <<"p", "h", "o", "n", "e", "-", "c", "h", "e", "c", "k", "s">>

ChannelIds == <<"C1", "C2", "C3", "C4", "C5", "C6", "C7", "C8">>

NameS1425 == <<"s", "-", "1", "4", "2", "5">>
NameS142 == <<"s", "-", "1", "4", "2">>
NameS425 == <<"s", "-", "4", "2", "5">>

\* the directories the platform can hold when the program starts
InitialDirectories ==
    { <<[id |-> "C1", name |-> SOURCE_CHANNEL_NAME], [id |-> "C2", name |-> NameS1425]>>,
      <<[id |-> "C1", name |-> NameS1425]>> }

\* the names of the channels that are created while the program runs
NewNames == {NameS142, NameS425}

\* the topics a case channel can carry
Topics == { <<>>, <<"<", "@", "U", "1", ">", " ", "<", "@", "U", "A", "2", ">">> }

Phone == <<"(", "5", "1", "2", ")", " ", "6", "9", "4", "-", "5", "1", "8", "1">>
Route == <<" ", "→", " ", "R", "J", "L", " ", "M", " ", "(", "5", "1", "2", ")", " ", "5", "0", "0", "-", "5", "2", "6", "6", " ", "H", "i">>

TextOne == <<"A", "l", " ", "4", "2", "5", " ">> \o Phone \o Route
TextTwo == <<"L", "u", " ", "1", "4", "2", " ", "&", " ", "1", "4", "2", "5", " ">> \o Phone \o Route
TextBare == Phone \o Route
TextNoCase == <<"A", "c", "m", "e", " ">> \o Phone \o Route

NoAttachments == <<>>
NoBlocks == <<>>

\* the notifications of the source channel: an ordinary message, a bot message
\* that carries its text in an attachment, a file share with a section block,
\* a missed call without a contact, a message without text, and a channel-join
\* notice
Payloads ==
    { [subtype |-> "none", text |-> TextOne, attachments |-> NoAttachments, blocks |-> NoBlocks],
      [subtype |-> "bot_message", text |-> <<>>,
       attachments |-> <<[text |-> <<>>, fallback |-> TextTwo, pretext |-> <<>>]>>,
       blocks |-> NoBlocks],
      [subtype |-> "file_share", text |-> <<>>, attachments |-> NoAttachments,
       blocks |-> <<[type |-> "section", elements |-> <<>>, text |-> TextNoCase]>>],
      [subtype |-> "none", text |-> TextBare, attachments |-> NoAttachments, blocks |-> NoBlocks],
      [subtype |-> "none", text |-> <<>>, attachments |-> NoAttachments,
       blocks |-> <<[type |-> "rich_text",
                     elements |-> << <<[type |-> "text", text |-> <<>>]>> >>,
                     text |-> <<>>]>>],
      [subtype |-> "channel_join", text |-> TextOne, attachments |-> NoAttachments,
       blocks |-> NoBlocks] }

NoMessage == [ts |-> NoTs, subtype |-> "none", text |-> <<>>,
              attachments |-> NoAttachments, blocks |-> NoBlocks]

\* ------------------------------------------------------------------- state
VARIABLES
    platform,           \* the channels conversations_list lists, in its order
    nmsgs,              \* the messages posted to the source channel since startup
    pc,                 \* where the program is
    ret,                \* who called refresh_channel_cache: "main" or "find"
    channel_cache,      \* the dict, as its items in insertion order
    cursor,             \* the listing cursor of refresh_channel_cache, 0 for None
    source_channel_id,
    last_timestamp,
    messages,           \* the batch get_new_messages returned, as timestamps
    mi,                 \* the position of the main loop in the batch
    message,            \* the notification process_message is working on
    contact_name,
    case_numbers,
    message_body,
    ci,                 \* the position of the loop over case_numbers
    case_channel_id,
    case_channel_name,
    tagged_users,
    forwarded_message,
    trace,              \* history: the steps taken for the notification at hand
    handed,             \* history: the timestamps handed to process_message
    snapshot,           \* history: the cache as the last completed refresh left it
    listed,             \* history: the platform when the last refresh completed
    entry_cache,        \* history: the cache when find_case_channel was entered
    refreshes           \* history: the refreshes of the find_case_channel call at hand

envVars == <<platform, nmsgs>>
cacheVars == <<channel_cache, cursor, snapshot, listed>>
pollVars == <<source_channel_id, last_timestamp, messages, mi, handed>>
msgVars == <<message, contact_name, case_numbers, message_body>>
caseVars == <<ci, case_channel_id, case_channel_name, tagged_users, forwarded_message,
              entry_cache, refreshes>>
vars == <<envVars, pc, ret, cacheVars, pollVars, msgVars, caseVars, trace>>

\* one step taken for the case number at hand
Step(op, ch, ok) ==
    [op |-> op, ci |-> ci, case |-> case_numbers[ci], ch |-> ch, ok |-> ok]

InitWith(directories) ==
    /\ platform \in directories
    /\ nmsgs = 0
    /\ pc = "main"
    /\ ret = "main"
    /\ channel_cache = <<>>
    /\ cursor = 0
    /\ source_channel_id = None
    /\ last_timestamp = NoTs
    /\ messages = <<>>
    /\ mi = 0
    /\ message = NoMessage
    /\ contact_name = NoText
    /\ case_numbers = <<>>
    /\ message_body = NoText
    /\ ci = 0
    /\ case_channel_id = None
    /\ case_channel_name = NoText
    /\ tagged_users = <<>>
    /\ forwarded_message = NoText
    /\ trace = <<>>
    /\ handed = <<>>
    /\ snapshot = <<>>
    /\ listed = <<>>
    /\ entry_cache = <<>>
    /\ refreshes = 0

Init == InitWith(InitialDirectories)

\* ------------------------------------------------------------ environment
\* a notification reaches the source channel, after startup (the earlier ones
\* lie before the starting timestamp and are never fetched)
Arrive(bound) ==
    /\ source_channel_id # None
    /\ nmsgs < bound
    /\ nmsgs' = nmsgs + 1
    /\ UNCHANGED <<platform, pc, ret, cacheVars, pollVars, msgVars, caseVars, trace>>

\* somebody creates a channel
CreateChannel ==
    /\ Len(platform) < MaxChannels
    /\ \E name \in NewNames :
          platform' = Append(platform, [id |-> ChannelIds[Len(platform) + 1], name |-> name])
    /\ UNCHANGED <<nmsgs, pc, ret, cacheVars, pollVars, msgVars, caseVars, trace>>

\* a channel leaves the listing (it is deleted, or it is private and the bot is
\* removed from it) between two ticks
RemoveChannel ==
    /\ pc = "sleep"
    /\ \E i \in 1..Len(platform) :
          platform' = SubSeq(platform, 1, i - 1) \o SubSeq(platform, i + 1, Len(platform))
    /\ UNCHANGED <<nmsgs, pc, ret, cacheVars, pollVars, msgVars, caseVars, trace>>

\* somebody renames a channel between two ticks
RenameChannel ==
    /\ pc = "sleep"
    /\ \E i \in 1..Len(platform) :
          \E name \in NewNames \ {platform[i].name} :
              platform' = [platform EXCEPT ![i].name = name]
    /\ UNCHANGED <<nmsgs, pc, ret, cacheVars, pollVars, msgVars, caseVars, trace>>

\* ----------------------------------------------------------- continuations
\* the loop over case_numbers goes on with the next case number, or
\* process_message returns; the locals of the iteration are dropped
NextCase ==
    /\ ci' = ci + 1
    /\ pc' = IF ci + 1 > Len(case_numbers) THEN "pm_return" ELSE "case"
    /\ case_channel_id' = None
    /\ case_channel_name' = NoText
    /\ tagged_users' = <<>>
    /\ forwarded_message' = NoText
    /\ entry_cache' = <<>>
    /\ refreshes' = 0

\* an exception leaves process_message: `except Exception` of the main loop logs
\* it, the rest of the batch is not looked at, and the loop sleeps
RaiseToMainLoop ==
    /\ pc' = "sleep"
    /\ messages' = <<>>
    /\ mi' = 0
    /\ message' = NoMessage
    /\ contact_name' = NoText
    /\ case_numbers' = <<>>
    /\ message_body' = NoText
    /\ ci' = 0
    /\ case_channel_id' = None
    /\ case_channel_name' = NoText
    /\ tagged_users' = <<>>
    /\ forwarded_message' = NoText
    /\ entry_cache' = <<>>
    /\ refreshes' = 0
    /\ trace' = <<>>

\* --------------------------------------------------- refresh_channel_cache
\* __main__ starts and calls refresh_channel_cache, which empties the cache
MainStart ==
    /\ pc = "main"
    /\ pc' = "refresh"
    /\ ret' = "main"
    /\ channel_cache' = <<>>
    /\ cursor' = 0
    /\ UNCHANGED <<envVars, snapshot, listed, pollVars, msgVars, caseVars, trace>>

\* refresh_channel_cache without the loop: the first page is stored and the
\* function returns
refresh_channel_cache_one_page ==
    /\ pc = "refresh"
    /\ LET left == Len(platform)
       IN  \E k \in (IF left <= 0 THEN {0} ELSE 1..Min(PageLimit, left)) :
              LET page == SubSeq(platform, 1, k)
                  cache == CachePutAll(channel_cache, page)
                  found == ScanCache(cache, case_numbers[ci])
              IN  /\ channel_cache' = cache
                  /\ cursor' = 0
                  /\ snapshot' = cache
                  /\ listed' = platform
                  /\ IF ret = "main"
                     THEN /\ pc' = "get_source"
                          /\ UNCHANGED <<caseVars, trace>>
                     ELSE /\ pc' = "resolved"
                          /\ case_channel_id' = found.id
                          /\ case_channel_name' = found.name
                          /\ trace' = trace \o <<Step("list", None, TRUE),
                                                 Step("resolve", found.id, TRUE)>>
                          /\ UNCHANGED <<ci, tagged_users, forwarded_message,
                                         entry_cache, refreshes>>
    /\ UNCHANGED <<envVars, ret, pollVars, msgVars>>

\* conversations_list answers with a page of k channels; the loop stores them
\* and goes on when the page carries a cursor. When it carries none, refresh
\* returns: to __main__, or to find_case_channel, which scans the cache again
refresh_channel_cache ==
    /\ pc = "refresh"
    /\ LET start == IF cursor = 0 THEN 1 ELSE cursor
           left == Len(platform) - start + 1
       IN  \E k \in (IF left <= 0 THEN {0} ELSE 1..Min(PageLimit, left)) :
              LET page == SubSeq(platform, start, start + k - 1)
                  next_cursor == IF start + k <= Len(platform) THEN start + k ELSE 0
                  cache == CachePutAll(channel_cache, page)
                  found == ScanCache(cache, case_numbers[ci])
              IN  /\ channel_cache' = cache
                  /\ cursor' = next_cursor
                  /\ IF next_cursor # 0
                     THEN /\ pc' = "refresh"
                          /\ trace' = IF ret = "find" THEN Append(trace, Step("list", None, TRUE))
                                      ELSE trace
                          /\ UNCHANGED <<snapshot, listed, caseVars>>
                     ELSE /\ snapshot' = cache
                          /\ listed' = platform
                          /\ IF ret = "main"
                             THEN /\ pc' = "get_source"
                                  /\ UNCHANGED <<caseVars, trace>>
                             ELSE /\ pc' = "resolved"
                                  /\ case_channel_id' = found.id
                                  /\ case_channel_name' = found.name
                                  /\ trace' = trace \o <<Step("list", None, TRUE),
                                                         Step("resolve", found.id, TRUE)>>
                                  /\ UNCHANGED <<ci, tagged_users, forwarded_message,
                                                 entry_cache, refreshes>>
    /\ UNCHANGED <<envVars, ret, pollVars, msgVars>>

\* conversations_list raises SlackApiError: nothing on the way catches it but the
\* main loop; at startup nothing catches it and the process ends
refresh_channel_cache_fails ==
    /\ pc = "refresh"
    /\ IF ret = "main"
       THEN /\ pc' = "crashed"
            /\ UNCHANGED <<messages, mi, msgVars, caseVars, trace>>
       ELSE RaiseToMainLoop
    /\ UNCHANGED <<envVars, ret, cacheVars, source_channel_id, last_timestamp, handed>>

\* --------------------------------------------------- get_source_channel_id
\* the first channel of the cache with the name of the source channel
RECURSIVE SourceIn(_)
SourceIn(cache) ==
    IF cache = <<>> THEN None
    ELSE IF Head(cache).name = SOURCE_CHANNEL_NAME THEN Head(cache).id
         ELSE SourceIn(Tail(cache))

\* __main__ without the exit(1): the loop is entered without a source channel
get_source_channel_id_enters ==
    /\ pc = "get_source"
    /\ source_channel_id' = SourceIn(channel_cache)
    /\ pc' = "poll"
    /\ last_timestamp' = 0
    /\ UNCHANGED <<envVars, ret, cacheVars, messages, mi, handed, msgVars, caseVars, trace>>

\* get_source_channel_id, then exit(1) without a source channel, else the
\* starting timestamp is set to now
get_source_channel_id ==
    /\ pc = "get_source"
    /\ source_channel_id' = SourceIn(channel_cache)
    /\ IF SourceIn(channel_cache) = None
       THEN pc' = "halted" /\ UNCHANGED last_timestamp
       ELSE pc' = "poll" /\ last_timestamp' = 0
    /\ UNCHANGED <<envVars, ret, cacheVars, messages, mi, handed, msgVars, caseVars, trace>>

\* -------------------------------------------------------- get_new_messages
\* conversations_history(channel, limit, oldest): the messages from `oldest` on
\* (inclusive), newest first, `limit` of them at most
RECURSIVE Downto(_, _)
Downto(hi, lo) == IF hi < lo THEN <<>> ELSE <<hi>> \o Downto(hi - 1, lo)

conversations_history(oldest, limit) ==
    LET all == Downto(nmsgs, Max(oldest, 1))
    IN  SubSeq(all, 1, Min(limit, Len(all)))

\* messages.reverse()
Reverse(s) == [i \in 1..Len(s) |-> s[Len(s) + 1 - i]]

\* the batch without the filter on the timestamp of the cursor
NewMessagesUnfiltered == Reverse(conversations_history(last_timestamp, HistoryLimit))

\* the batch of get_new_messages for the cursor at hand
NewMessages ==
    SelectSeq(Reverse(conversations_history(last_timestamp, HistoryLimit)),
              LAMBDA ts : ts # last_timestamp)

\* get_new_messages succeeds; the main loop starts on the batch, or sleeps
get_new_messages ==
    /\ pc = "poll"
    /\ messages' = NewMessages
    /\ last_timestamp' = IF NewMessages # <<>> THEN NewMessages[Len(NewMessages)]
                         ELSE last_timestamp
    /\ mi' = 1
    /\ pc' = IF NewMessages = <<>> THEN "sleep" ELSE "loop"
    /\ UNCHANGED <<envVars, ret, cacheVars, source_channel_id, handed, msgVars, caseVars, trace>>

\* conversations_history raises SlackApiError: get_new_messages returns []
get_new_messages_fails ==
    /\ pc = "poll"
    /\ messages' = <<>>
    /\ mi' = 1
    /\ pc' = "sleep"
    /\ UNCHANGED <<envVars, ret, cacheVars, source_channel_id, last_timestamp, handed,
                   msgVars, caseVars, trace>>

\* time.sleep(POLL_INTERVAL)
Sleep ==
    /\ pc = "sleep"
    /\ pc' = "poll"
    /\ UNCHANGED <<envVars, ret, cacheVars, pollVars, msgVars, caseVars, trace>>

\* --------------------------------------------------------- process_message
\* process_message that walks the case numbers from the last to the first
process_messageReversed(payload) ==
    /\ pc = "loop"
    /\ mi <= Len(messages)
    /\ LET text == get_message_text(payload)
           parsed == IF text = <<>> THEN Unroutable ELSE parse_quo_message(text)
       IN  /\ message' = [ts |-> messages[mi], subtype |-> payload.subtype,
                          text |-> payload.text, attachments |-> payload.attachments,
                          blocks |-> payload.blocks]
           /\ handed' = Append(handed, messages[mi])
           /\ contact_name' = parsed.contact_name
           /\ case_numbers' = [i \in 1..Len(parsed.case_numbers) |->
                                 parsed.case_numbers[Len(parsed.case_numbers) + 1 - i]]
           /\ message_body' = parsed.message_body
           /\ IF Falsy(text) \/ Falsy(parsed.contact_name)
              THEN pc' = "pm_return" /\ ci' = 0
              ELSE pc' = "case" /\ ci' = 1
    /\ UNCHANGED <<envVars, ret, cacheVars, source_channel_id, last_timestamp, messages, mi,
                   case_channel_id, case_channel_name, tagged_users, forwarded_message,
                   entry_cache, refreshes, trace>>

\* the main loop hands the next message of the batch to process_message, which
\* extracts the text and parses it, and returns or starts on the case numbers
process_message(payload) ==
    /\ pc = "loop"
    /\ mi <= Len(messages)
    /\ LET text == get_message_text(payload)
           parsed == IF text = <<>> THEN Unroutable ELSE parse_quo_message(text)
       IN  /\ message' = [ts |-> messages[mi], subtype |-> payload.subtype,
                          text |-> payload.text, attachments |-> payload.attachments,
                          blocks |-> payload.blocks]
           /\ handed' = Append(handed, messages[mi])
           /\ contact_name' = parsed.contact_name
           /\ case_numbers' = parsed.case_numbers
           /\ message_body' = parsed.message_body
           /\ IF Falsy(text) \/ Falsy(parsed.contact_name)
              THEN pc' = "pm_return" /\ ci' = 0
              ELSE pc' = "case" /\ ci' = 1
    /\ UNCHANGED <<envVars, ret, cacheVars, source_channel_id, last_timestamp, messages, mi,
                   case_channel_id, case_channel_name, tagged_users, forwarded_message,
                   entry_cache, refreshes, trace>>

\* find_case_channel that refreshes before it looks at the cache
find_case_channel_refreshes_first ==
    /\ pc = "case"
    /\ pc' = "refresh"
    /\ ret' = "find"
    /\ entry_cache' = channel_cache
    /\ refreshes' = refreshes + 1
    /\ channel_cache' = <<>>
    /\ cursor' = 0
    /\ UNCHANGED <<snapshot, listed, case_channel_id, case_channel_name, trace>>
    /\ UNCHANGED <<envVars, pollVars, msgVars, ci, tagged_users, forwarded_message>>

\* find_case_channel whose refresh keeps the entries of the cache and stores the
\* listing over them
find_case_channel_keeps_cache ==
    /\ pc = "case"
    /\ LET found == ScanCache(channel_cache, case_numbers[ci])
       IN  IF found.id # None
           THEN /\ pc' = "resolved"
                /\ case_channel_id' = found.id
                /\ case_channel_name' = found.name
                /\ entry_cache' = channel_cache
                /\ trace' = Append(trace, Step("resolve", found.id, TRUE))
                /\ UNCHANGED <<ret, cacheVars, refreshes>>
           ELSE /\ pc' = "refresh"
                /\ ret' = "find"
                /\ entry_cache' = channel_cache
                /\ refreshes' = refreshes + 1
                /\ cursor' = 0
                /\ UNCHANGED <<channel_cache, snapshot, listed, case_channel_id,
                               case_channel_name, trace>>
    /\ UNCHANGED <<envVars, pollVars, msgVars, ci, tagged_users, forwarded_message>>

\* find_case_channel scans the cache; without a match it calls
\* refresh_channel_cache, which empties the cache
find_case_channel ==
    /\ pc = "case"
    /\ LET found == ScanCache(channel_cache, case_numbers[ci])
       IN  IF found.id # None
           THEN /\ pc' = "resolved"
                /\ case_channel_id' = found.id
                /\ case_channel_name' = found.name
                /\ entry_cache' = channel_cache
                /\ trace' = Append(trace, Step("resolve", found.id, TRUE))
                /\ UNCHANGED <<ret, cacheVars, refreshes>>
           ELSE /\ pc' = "refresh"
                /\ ret' = "find"
                /\ entry_cache' = channel_cache
                /\ refreshes' = refreshes + 1
                /\ channel_cache' = <<>>
                /\ cursor' = 0
                /\ UNCHANGED <<snapshot, listed, case_channel_id, case_channel_name, trace>>
    /\ UNCHANGED <<envVars, pollVars, msgVars, ci, tagged_users, forwarded_message>>

\* `continue` taken whether or not a channel was found
NoChannelFoundSkipsFound ==
    /\ pc = "resolved"
    /\ NextCase
    /\ UNCHANGED <<envVars, ret, cacheVars, pollVars, msgVars, trace>>

\* `return` in the place of `continue`
NoChannelFoundReturns ==
    /\ pc = "resolved"
    /\ case_channel_id = None
    /\ pc' = "pm_return"
    /\ ci' = ci + 1
    /\ case_channel_id' = None
    /\ case_channel_name' = NoText
    /\ tagged_users' = <<>>
    /\ forwarded_message' = NoText
    /\ entry_cache' = <<>>
    /\ refreshes' = 0
    /\ UNCHANGED <<envVars, ret, cacheVars, pollVars, msgVars, trace>>

\* `if not case_channel_id: continue`
NoChannelFound ==
    /\ pc = "resolved"
    /\ case_channel_id = None
    /\ NextCase
    /\ UNCHANGED <<envVars, ret, cacheVars, pollVars, msgVars, trace>>

\* join_channel without the `except`: a failure other than "already_in_channel"
\* leaves process_message
join_channel_raises ==
    /\ pc = "resolved"
    /\ case_channel_id # None
    /\ \E outcome \in {"ok", "already_in_channel", "error"} :
          IF outcome = "error"
          THEN /\ RaiseToMainLoop
               /\ UNCHANGED <<envVars, ret, cacheVars, source_channel_id, last_timestamp, handed>>
          ELSE /\ trace' = Append(trace, Step("join", case_channel_id, outcome = "ok"))
               /\ pc' = "topic"
               /\ UNCHANGED <<envVars, ret, cacheVars, pollVars, msgVars, caseVars>>

\* join_channel: conversations_join succeeds, or raises SlackApiError, which
\* join_channel catches ("already_in_channel" silently, the others with a warning)
join_channel ==
    /\ pc = "resolved"
    /\ case_channel_id # None
    /\ \E outcome \in {"ok", "already_in_channel", "error"} :
          trace' = Append(trace, Step("join", case_channel_id, outcome = "ok"))
    /\ pc' = "topic"
    /\ UNCHANGED <<envVars, ret, cacheVars, pollVars, msgVars, caseVars>>

\* get_tagged_users_from_topic: conversations_info answers with the topic; the
\* mentions are found and the message is built
get_tagged_users_from_topic ==
    /\ pc = "topic"
    /\ \E topic \in Topics :
          /\ tagged_users' = FindMentions(topic, 1)
          /\ forwarded_message' = Compose(contact_name, case_numbers[ci], message_body,
                                          FindMentions(topic, 1))
    /\ trace' = Append(trace, Step("topic", case_channel_id, TRUE))
    /\ pc' = "post"
    /\ UNCHANGED <<envVars, ret, cacheVars, pollVars, msgVars, ci, case_channel_id,
                   case_channel_name, entry_cache, refreshes>>

\* get_tagged_users_from_topic without the `except`: the SlackApiError of
\* conversations_info leaves process_message
get_tagged_users_from_topic_raises ==
    /\ pc = "topic"
    /\ RaiseToMainLoop
    /\ UNCHANGED <<envVars, ret, cacheVars, source_channel_id, last_timestamp, handed>>

\* conversations_info raises SlackApiError: no tagged users
get_tagged_users_from_topic_fails ==
    /\ pc = "topic"
    /\ tagged_users' = <<>>
    /\ forwarded_message' = Compose(contact_name, case_numbers[ci], message_body, <<>>)
    /\ trace' = Append(trace, Step("topic", case_channel_id, FALSE))
    /\ pc' = "post"
    /\ UNCHANGED <<envVars, ret, cacheVars, pollVars, msgVars, ci, case_channel_id,
                   case_channel_name, entry_cache, refreshes>>

\* chat_postMessage succeeds
chat_postMessage ==
    /\ pc = "post"
    /\ trace' = Append(trace, Step("post", case_channel_id, TRUE))
    /\ NextCase
    /\ UNCHANGED <<envVars, ret, cacheVars, pollVars, msgVars>>

\* chat_postMessage raises SlackApiError and nothing around the call catches it
chat_postMessage_raises ==
    /\ pc = "post"
    /\ RaiseToMainLoop
    /\ UNCHANGED <<envVars, ret, cacheVars, source_channel_id, last_timestamp, handed>>

\* chat_postMessage raises SlackApiError, which is caught and logged
chat_postMessage_fails ==
    /\ pc = "post"
    /\ trace' = Append(trace, Step("post", case_channel_id, FALSE))
    /\ NextCase
    /\ UNCHANGED <<envVars, ret, cacheVars, pollVars, msgVars>>

\* process_message returns to the main loop, which goes on with the batch or sleeps
ProcessMessageReturns ==
    /\ pc = "pm_return"
    /\ mi' = mi + 1
    /\ pc' = IF mi + 1 > Len(messages) THEN "sleep" ELSE "loop"
    /\ message' = NoMessage
    /\ contact_name' = NoText
    /\ case_numbers' = <<>>
    /\ message_body' = NoText
    /\ ci' = 0
    /\ trace' = <<>>
    /\ UNCHANGED <<envVars, ret, cacheVars, source_channel_id, last_timestamp, messages,
                   handed, case_channel_id, case_channel_name, tagged_users,
                   forwarded_message, entry_cache, refreshes>>

\* ----------------------------------------------------------- specifications
Startup == MainStart \/ refresh_channel_cache \/ refresh_channel_cache_fails \/ get_source_channel_id

Polling == get_new_messages \/ get_new_messages_fails \/ Sleep \/ ProcessMessageReturns

Forwarding ==
    \/ find_case_channel
    \/ NoChannelFound
    \/ join_channel
    \/ get_tagged_users_from_topic
    \/ get_tagged_users_from_topic_fails
    \/ chat_postMessage
    \/ chat_postMessage_fails

Next ==
    \/ Arrive(MaxMsgs)
    \/ CreateChannel
    \/ Startup
    \/ Polling
    \/ \E payload \in Payloads : process_message(payload)
    \/ Forwarding

Spec == Init /\ [][Next]_vars

\* the polling loop alone: every notification is a missed call without a contact
QuietPayload ==
    [subtype |-> "none", text |-> TextBare, attachments |-> NoAttachments, blocks |-> NoBlocks]

NextPoll ==
    \/ Arrive(MaxBurst)
    \/ Startup
    \/ Polling
    \/ process_message(QuietPayload)

SpecPoll == Init /\ [][NextPoll]_vars

\* the resolver over a wider choice of directories: the source channel and one or
\* two channels whose names end with a case number, continue past it, hold it
\* in the middle or lack the hyphen before it
ResolveNames ==
    { NameS1425, <<"a", "-", "b", "-", "1", "4", "2">>, <<"s", "-", "1", "4", "2", "-", "b">>, <<"1", "4", "2", "5">>, <<"s", "-", "2", "1", "4", "2", "5">>, <<"s", "-", "1", "4", "2", "5", "0">> }

ResolveDirectories ==
    LET source == [id |-> "C1", name |-> SOURCE_CHANNEL_NAME]
        one(x) == <<source, [id |-> "C2", name |-> x]>>
        two(x, y) == <<source, [id |-> "C2", name |-> x], [id |-> "C3", name |-> y]>>
    IN  {one(x) : x \in ResolveNames}
        \cup {two(xy[1], xy[2]) : xy \in {p \in ResolveNames \X ResolveNames : p[1] # p[2]}}

\* the notifications with case numbers
RoutablePayloads ==
    {m \in Payloads : m.subtype \in {"none", "bot_message"} /\ m.blocks = NoBlocks
                          /\ m # QuietPayload}

InitResolve == InitWith(ResolveDirectories)

NextResolve ==
    \/ Arrive(MaxMsgs)
    \/ Startup
    \/ Polling
    \/ \E payload \in RoutablePayloads : process_message(payload)
    \/ Forwarding

SpecResolve == InitResolve /\ [][NextResolve]_vars

\* the parser over a wider choice of texts: a header made of a prefix and a
\* middle part, then a phone number and the routing part, the phone number
\* alone, or nothing
HeaderPrefixes == { <<>>, <<"A", "l", " ">>, <<"A", "l">>, <<" ">> }

HeaderMiddles ==
    { <<>>,
      <<"1", "2">>,
      <<"1", "2", "3", "4", "5", "6">>,
      <<"4", "2", "5">>,
      <<"a", "4", "2", "5">>,
      <<"4", "2", "5", "b">>,
      <<"4", "2", "_", "5">>,
      <<"1", "2", " ", "3", "4", " ", "5">>,
      <<"4", "2", "5", " ", "&", " ", "1", "4", "2", "5">>,
      <<"1", "\n", "4", "2", "5", " ">> }

TextTails == { Phone \o Route, Phone, <<>> }

ParseTexts ==
    {pm[1] \o pm[2] \o tail : pm \in HeaderPrefixes \X HeaderMiddles, tail \in TextTails}
        \ {<<>>}

ParsePayloads ==
    {[subtype |-> "none", text |-> text, attachments |-> NoAttachments, blocks |-> NoBlocks] :
        text \in ParseTexts}

NextParse ==
    \/ Arrive(MaxMsgs)
    \/ Startup
    \/ Polling
    \/ \E payload \in ParsePayloads : process_message(payload)
    \/ Forwarding

SpecParse == Init /\ [][NextParse]_vars

\* the program on a directory whose channels leave and change their names
RefreshDirectories ==
    { <<[id |-> "C1", name |-> SOURCE_CHANNEL_NAME], [id |-> "C2", name |-> NameS1425],
        [id |-> "C3", name |-> NameS142]>> }

InitRefresh == InitWith(RefreshDirectories)

\* every notification names the case 425
RefreshPayload ==
    [subtype |-> "none", text |-> TextOne, attachments |-> NoAttachments, blocks |-> NoBlocks]

NextRefresh ==
    \/ Arrive(MaxMsgs)
    \/ RemoveChannel
    \/ RenameChannel
    \/ Startup
    \/ Polling
    \/ process_message(RefreshPayload)
    \/ Forwarding

SpecRefresh == InitRefresh /\ [][NextRefresh]_vars

\* ------------------------------------------------------------------ claims
\* name ends with suffix
EndsWith(name, suffix) ==
    /\ Len(name) >= Len(suffix)
    /\ SubSeq(name, Len(name) - Len(suffix) + 1, Len(name)) = suffix

\* name ends with "-<case_number>"
IsCaseChannel(name, case_number) == EndsWith(name, <<"-">> \o case_number)

\* the positions of the cache whose channel ends with "-<case_number>"
CasePositions(cache, case_number) ==
    {i \in 1..Len(cache) : IsCaseChannel(cache[i].name, case_number)}

\* the first channel of the cache that ends with "-<case_number>", or none
FirstCaseChannel(cache, case_number) ==
    IF CasePositions(cache, case_number) = {} THEN NoChannel
    ELSE LET i == CHOOSE k \in CasePositions(cache, case_number) :
                      \A j \in CasePositions(cache, case_number) : k <= j
         IN  [id |-> cache[i].id, name |-> cache[i].name]

\* the steps of the trace with the given operation
StepsOf(op) == SelectSeq(trace, LAMBDA st : st.op = op)

\* the resolve steps that found a channel
Resolved == SelectSeq(trace, LAMBDA st : st.op = "resolve" /\ st.ch # None)

\* find_case_channel has returned
Returned == pc = "resolved"

\* C1: find_case_channel returns the first channel of the cache it was entered
\* with that ends with "-<case_id>" without any refresh; without such a channel
\* it refreshes exactly once, scans again and returns what the refreshed cache
\* holds, absent when it holds no match. No call refreshes more than once.
C1_OneRefreshOnMiss ==
    /\ refreshes \in {0, 1}
    /\ pc = "refresh" /\ ret = "find" => refreshes = 1
    /\ Returned =>
         LET c == case_numbers[ci]
             before == FirstCaseChannel(entry_cache, c)
             after == FirstCaseChannel(channel_cache, c)
             result == [id |-> case_channel_id, name |-> case_channel_name]
         IN  IF before # NoChannel
             THEN refreshes = 0 /\ result = before /\ channel_cache = entry_cache
             ELSE refreshes = 1 /\ result = after

\* C1 witness: a call that refreshed once and still returns absent
C1_Witness == Returned /\ refreshes = 1 /\ case_channel_id = None

\* C2: when the listing fails during the refresh of find_case_channel, the case
\* id is skipped as absent and the same notification and the same batch go on.
C2_FailedRefreshIsAbsent ==
    [][(pc = "refresh" /\ ret = "find" /\ pc' \notin {"refresh", "resolved"})
         => /\ ci' = ci + 1
            /\ pc' \in {"case", "pm_return"}
            /\ message' = message
            /\ messages' = messages
            /\ mi' = mi]_vars

\* C3: whenever a lookup scans the cache, the cache is a complete snapshot: the
\* one the last completed refresh built.
C3_CompleteSnapshot == pc = "case" => channel_cache = snapshot

\* C4: a notification with N case ids gets at most N post attempts, one per case
\* id at most, and after a post, failed or not, the loop goes on with the next
\* case id of the same notification.
C4_PostsInv ==
    /\ Len(StepsOf("post")) <= Len(case_numbers)
    /\ \A j, k \in 1..Len(StepsOf("post")) :
          j # k => StepsOf("post")[j].ci # StepsOf("post")[k].ci

C4_PostStep ==
    (pc = "post" /\ pc' # "post") =>
        /\ ci' = ci + 1
        /\ pc' = IF ci < Len(case_numbers) THEN "case" ELSE "pm_return"
        /\ message' = message
        /\ case_numbers' = case_numbers
        /\ Len(trace') = Len(trace) + 1

\* C4: both parts: the bound on the post attempts in every state, and the step
\* that follows a post, failed or not, in every behaviour.
C4_PostIsolated == []C4_PostsInv /\ [][C4_PostStep]_vars

\* C4 witness: a later case id is posted after the post of an earlier one failed
C4_Witness ==
    \E j, k \in 1..Len(trace) :
        /\ trace[j].op = "post" /\ ~trace[j].ok
        /\ trace[k].op = "post" /\ trace[k].ci > trace[j].ci

\* the kinds of notification the orchestrator accepts
AcceptedKinds == {"none", "bot_message", "file_share"}

\* C5: a notification of another kind is discarded before extraction: nothing is
\* resolved, joined, read or posted for it.
C5_OnlyAcceptedKinds ==
    (message # NoMessage /\ message.subtype \notin AcceptedKinds)
        => pc = "pm_return" /\ trace = <<>> /\ case_numbers = <<>>

\* C6: every message the cursor has passed was handed to process_message or is
\* still ahead in the batch at hand, however many arrived between two ticks.
C6_NoneSkipped ==
    last_timestamp # NoTs =>
        \A ts \in 1..last_timestamp :
            \/ \E i \in 1..Len(handed) : handed[i] = ts
            \/ \E i \in 1..Len(messages) : i >= mi /\ messages[i] = ts

\* C7: the post attempts of a notification are the case ids that resolved to a
\* channel, each posted to the channel resolved for it; a notification without
\* text or without a parse makes no call at all.
C7_PostsAreResolved ==
    /\ Len(StepsOf("post")) <= Len(Resolved)
    /\ Len(Resolved) <= Len(StepsOf("post")) + 1
    /\ \A j \in 1..Len(StepsOf("post")) :
          /\ StepsOf("post")[j].ci = Resolved[j].ci
          /\ StepsOf("post")[j].ch = Resolved[j].ch
    /\ pc = "pm_return" =>
          /\ Len(StepsOf("post")) = Len(Resolved)
          /\ (\/ get_message_text(message) = <<>>
              \/ parse_quo_message(get_message_text(message)) = Unroutable)
                => trace = <<>>

\* C7 witness: a notification with two case ids, both resolved and both posted
C7_Witness == pc = "pm_return" /\ Len(Resolved) = 2 /\ Len(StepsOf("post")) = 2

\* C8: the channel find_case_channel returns is in the cache under that id with a
\* name that ends with "-<case_id>"; it returns absent exactly when no name of
\* the cache ends so.
C8_SuffixAnchored ==
    Returned =>
        LET c == case_numbers[ci]
        IN  IF case_channel_id = None
            THEN CasePositions(channel_cache, c) = {}
            ELSE \E i \in CasePositions(channel_cache, c) :
                    /\ channel_cache[i].id = case_channel_id
                    /\ channel_cache[i].name = case_channel_name

\* C8 witness: absent for a case id whose digits a name of the cache holds
\* without ending in "-<case_id>"
C8_Witness ==
    /\ Returned
    /\ case_channel_id = None
    /\ \E i \in 1..Len(channel_cache) :
          \E p \in 1..(Len(channel_cache[i].name) - Len(case_numbers[ci]) + 1) :
              SubSeq(channel_cache[i].name, p, p + Len(case_numbers[ci]) - 1)
                  = case_numbers[ci]

\* C9: when process_message returns, every case id of the notification was
\* resolved; the ones without a channel made no call after the resolve, the
\* others were posted once, to their channel.
C9_AbsentSkipsOnlyThatId ==
    pc = "pm_return" =>
        \A i \in 1..Len(case_numbers) :
            LET mine == SelectSeq(trace, LAMBDA st : st.ci = i)
                res == SelectSeq(mine, LAMBDA st : st.op = "resolve")
                posts == SelectSeq(mine, LAMBDA st : st.op = "post")
                later == SelectSeq(mine, LAMBDA st : st.op \in {"join", "topic", "post"})
            IN  /\ Len(res) = 1
                /\ IF res[1].ch = None THEN later = <<>>
                   ELSE Len(posts) = 1 /\ posts[1].ch = res[1].ch

\* C9 witness: of two case ids the first has no channel and the second is posted
C9_Witness ==
    /\ pc = "pm_return"
    /\ Len(case_numbers) = 2
    /\ \E j \in 1..Len(trace) :
          trace[j].op = "resolve" /\ trace[j].ci = 1 /\ trace[j].ch = None
    /\ Len(StepsOf("post")) = 1
    /\ StepsOf("post")[1].ci = 2

\* C10: the steps of a notification follow the order of the case ids in its
\* text: the step positions never go back, and every step acts on the case id
\* the parse has at that position.
C10_ForwardingOrder ==
    message # NoMessage =>
        LET ids == parse_quo_message(get_message_text(message)).case_numbers
        IN  /\ \A j \in 1..Len(trace) :
                  /\ trace[j].ci \in 1..Len(ids)
                  /\ trace[j].case = ids[trace[j].ci]
            /\ \A j, k \in 1..Len(trace) : j < k => trace[j].ci <= trace[k].ci
            /\ pc \in {"case", "refresh", "resolved", "topic", "post"}
                  => /\ ci \in 1..Len(ids)
                     /\ \A j \in 1..Len(trace) : trace[j].ci <= ci
            /\ pc = "post" =>
                  forwarded_message
                      = Compose(contact_name, ids[ci], message_body, tagged_users)

\* C10 witness: the second case id is posted after the first
C10_Witness ==
    \E j, k \in 1..Len(trace) :
        /\ j < k
        /\ trace[j].op = "post" /\ trace[j].ci = 1 /\ trace[j].ok
        /\ trace[k].op = "post" /\ trace[k].ci = 2 /\ trace[k].ok

\* the last step of a non-empty sequence of steps
Last(steps) == steps[Len(steps)]

C11_JoinInv ==
    \A j \in 1..Len(trace) :
        trace[j].op = "join" =>
            /\ \/ pc \in {"topic", "post"} /\ ci = trace[j].ci
               \/ \E k \in (j + 1)..Len(trace) :
                     /\ trace[k].op = "post"
                     /\ trace[k].ci = trace[j].ci
                     /\ trace[k].ch = trace[j].ch
            /\ pc = "post" /\ ci = trace[j].ci =>
                  j < Len(trace) /\ trace[j + 1].op = "topic"

C11_JoinStep ==
    /\ (pc = "resolved" /\ case_channel_id # None /\ pc' # "resolved") =>
          /\ pc' = "topic"
          /\ ci' = ci /\ message' = message /\ case_channel_id' = case_channel_id
          /\ Len(trace') = Len(trace) + 1
          /\ Last(trace').op = "join" /\ Last(trace').ch = case_channel_id
    /\ (pc = "topic" /\ pc' # "topic") =>
          /\ pc' = "post"
          /\ ci' = ci /\ message' = message /\ case_channel_id' = case_channel_id
          /\ Last(trace').op = "topic"
    /\ (pc = "post" /\ pc' # "post") =>
          /\ Last(trace').op = "post"
          /\ Last(trace').ci = ci /\ Last(trace').ch = case_channel_id

\* C11: whatever conversations_join answers for a resolved channel (success,
\* "already_in_channel" or another error), process_message goes on to the topic
\* read and to the post attempt for that case id and that channel.
C11_JoinNeverFatal == []C11_JoinInv /\ [][C11_JoinStep]_vars

\* C11 witness: a join that failed, followed by the topic read and the post
\* attempt for the same case id on the same channel
C11_Witness ==
    \E j \in 1..Len(trace) :
        /\ trace[j].op = "join" /\ ~trace[j].ok
        /\ j + 2 <= Len(trace)
        /\ trace[j + 1].op = "topic" /\ trace[j + 1].ci = trace[j].ci
        /\ trace[j + 2].op = "post" /\ trace[j + 2].ci = trace[j].ci
        /\ trace[j + 2].ch = trace[j].ch

\* the topic read of the case id at hand failed
TopicFailed == trace # <<>> /\ Last(trace).op = "topic" /\ ~Last(trace).ok

C12_TopicInv ==
    (pc = "post" /\ TopicFailed) =>
        /\ tagged_users = <<>>
        /\ Last(trace).ci = ci /\ Last(trace).ch = case_channel_id
        /\ forwarded_message
             = <<Emoji, " ", "*">> \o contact_name \o <<"*", " ", "(", "C", "a", "s", "e", " ">>
                 \o case_numbers[ci] \o <<")", ":", "\n", "\n">> \o message_body
        /\ EndsWith(forwarded_message, <<"\n", "\n">> \o message_body)

C12_TopicStep ==
    /\ (pc = "topic" /\ pc' # "topic") =>
          /\ pc' = "post"
          /\ message' = message /\ ci' = ci /\ case_channel_id' = case_channel_id
          /\ trace' = Append(trace, Last(trace'))
          /\ Last(trace').op = "topic"
    /\ (pc = "post" /\ TopicFailed /\ pc' # "post") =>
          /\ trace' = Append(trace, Last(trace'))
          /\ Last(trace').op = "post"
          /\ Last(trace').ci = ci /\ Last(trace').ch = case_channel_id
          /\ pc' \in {"case", "pm_return"}

\* C12: when conversations_info fails for a resolved channel, the mention set is
\* empty, the failure stays inside get_tagged_users_from_topic, and the post
\* attempt is made to that channel with a text that ends with the body, without
\* a mention suffix.
C12_TopicFailureIsNoMentions == []C12_TopicInv /\ [][C12_TopicStep]_vars

\* C12 witness: a failed topic read followed by a post to the same channel
C12_Witness ==
    \E j \in 1..Len(trace) :
        /\ trace[j].op = "topic" /\ ~trace[j].ok
        /\ j < Len(trace)
        /\ trace[j + 1].op = "post" /\ trace[j + 1].ok
        /\ trace[j + 1].ci = trace[j].ci /\ trace[j + 1].ch = trace[j].ch

\* the program has not entered the main loop
StartingUp == pc \in {"main", "get_source", "halted", "crashed"} \/ (pc = "refresh" /\ ret = "main")

\* the cache holds a channel with the name of the source channel
HasSource(cache) == \E i \in 1..Len(cache) : cache[i].name = SOURCE_CHANNEL_NAME

C13_StartupInv ==
    /\ StartingUp =>
          /\ last_timestamp = NoTs /\ nmsgs = 0
          /\ messages = <<>> /\ handed = <<>> /\ trace = <<>> /\ message = NoMessage
          /\ refreshes = 0
    /\ pc \in {"main", "refresh"} /\ ret = "main" => source_channel_id = None /\ snapshot = <<>>
    /\ pc \in {"get_source", "halted"} =>
          /\ snapshot = channel_cache
          /\ Len(channel_cache) <= Len(platform)
          /\ \A i \in 1..Len(channel_cache) : channel_cache[i] = platform[i]
          /\ \E d \in InitialDirectories : Len(d) <= Len(channel_cache)
    /\ pc = "halted" => ~HasSource(snapshot) /\ source_channel_id = None
    /\ ~StartingUp =>
          /\ last_timestamp # NoTs
          /\ \E i \in 1..Len(platform) :
                platform[i].name = SOURCE_CHANNEL_NAME /\ platform[i].id = source_channel_id

C13_StartupStep ==
    /\ (pc = "get_source" /\ pc' # "get_source") =>
          IF HasSource(channel_cache) THEN pc' = "poll" ELSE pc' = "halted"
    /\ pc = "halted" => pc' = "halted"
    /\ (StartingUp /\ pc' = "refresh" /\ pc # "refresh") => pc = "main" /\ channel_cache = <<>>
    /\ (StartingUp /\ pc = "refresh" /\ pc' # "refresh") => pc' \in {"get_source", "crashed"}
    /\ StartingUp' => StartingUp

\* C13: before any notification is fetched or processed the directory is filled
\* by one refresh, and when no channel of that snapshot has the name of the
\* source channel the process halts: no history fetch, no process_message call
\* and no post is ever made.
C13_StartupHalts == []C13_StartupInv /\ [][C13_StartupStep]_vars

\* C13 witness: the process has halted on a filled directory without the source
\* channel
C13_Witness == pc = "halted" /\ snapshot # <<>> /\ ~HasSource(snapshot)

\* the ids of a directory
Ids(directory) == {directory[i].id : i \in 1..Len(directory)}

\* the cache holds the channels of the directory, each once under its id, and
\* nothing else
SameDirectory(cache, directory) ==
    /\ Cardinality(Ids(cache)) = Len(cache)
    /\ Ids(cache) = Ids(directory)
    /\ \A i \in 1..Len(cache) : \A j \in 1..Len(directory) :
          cache[i].id = directory[j].id => cache[i] = directory[j]

\* a refresh returns
RefreshReturns == pc = "refresh" /\ pc' \in {"get_source", "resolved"}

C14_ListingInv ==
    pc = "refresh" =>
        /\ Len(channel_cache) <= Len(platform)
        /\ \A i \in 1..Len(channel_cache) : channel_cache[i] = platform[i]
        /\ cursor = IF channel_cache = <<>> THEN 0 ELSE Len(channel_cache) + 1

C14_RefreshStep ==
    /\ RefreshReturns =>
          /\ cursor' = 0
          /\ SameDirectory(channel_cache', platform)
          /\ snapshot' = channel_cache'
    /\ (pc = "refresh" /\ pc' = "refresh" /\ channel_cache' # channel_cache) =>
          /\ cursor' # 0
          /\ Len(channel_cache') < Len(platform)
    /\ (pc = "refresh" /\ cursor' = 0 /\ cursor # 0) => pc' # "refresh"

\* C14: when a refresh returns, over however many pages, the cache holds exactly
\* the channels the platform lists, each once under its id and with nothing left
\* of the snapshot before; the loop goes on while a page carries a cursor and
\* stops at the first page that carries none.
C14_ExactSnapshot == []C14_ListingInv /\ [][C14_RefreshStep]_vars

\* C14 witness: a refresh over two pages or more has returned a cache without a
\* channel the cache held before
C14_Witness ==
    /\ Returned /\ refreshes = 1
    /\ Len(StepsOf("list")) >= 2
    /\ \E i \in 1..Len(entry_cache) : entry_cache[i].id \notin Ids(channel_cache)
    /\ SameDirectory(channel_cache, platform)

\* the entries of a cache
Entries(cache) == {cache[i] : i \in 1..Len(cache)}

\* two caches with the same keys and the same channel under every key
SameMapping(a, b) ==
    /\ Ids(a) = Ids(b)
    /\ Entries(a) = Entries(b)
    /\ Cardinality(Ids(a)) = Cardinality(Entries(a))

\* C15: a refresh that returns while the platform lists what it listed when the
\* refresh before returned leaves the cache with the keys and the channels the
\* refresh before left.
C15_RefreshIdempotent ==
    [][(RefreshReturns /\ ret = "find" /\ listed = platform)
          => SameMapping(channel_cache', snapshot)]_vars

\* C15 witness: the second of two refreshes over an unchanged platform has
\* returned the cache of the first
C15_Witness ==
    /\ Returned /\ refreshes = 1
    /\ Len(channel_cache) >= 2
    /\ entry_cache = channel_cache
    /\ listed = platform
    /\ SameDirectory(channel_cache, platform)

\* the first position of the text where (ddd) ddd-dddd starts, 0 for none
FirstPhone(text) ==
    LET starts == {p \in 1..Len(text) : At(text, p) = "(" /\ PhoneAt(text, p)}
    IN  IF starts = {} THEN 0 ELSE CHOOSE p \in starts : \A q \in starts : p <= q

\* the header region: the text before the first phone number
HeaderRegion(text) ==
    IF FirstPhone(text) = 0 THEN text ELSE SubSeq(text, 1, FirstPhone(text) - 1)

\* the text holds a maximal run of 3 to 5 digits
HasCaseRun(s) ==
    \E i \in 1..Len(s) : \E n \in 3..5 :
        DigitsAt(s, i, n) /\ ~IsDigit(At(s, i - 1)) /\ ~IsDigit(At(s, i + n))

\* the text starts with a letter
HasLetterPrefix(s) == IsAlpha(At(s, 1))

\* C16: a text whose header region, the part before the first phone number,
\* holds no maximal run of 3 to 5 digits parses as unroutable, with or without
\* letters at its start, and process_message returns without a resolve or a post.
C16_NoCaseRunIsUnroutable ==
    message # NoMessage =>
        LET text == get_message_text(message)
        IN  ~HasCaseRun(HeaderRegion(text)) =>
                /\ parse_quo_message(text) = Unroutable
                /\ Falsy(contact_name) /\ case_numbers = <<>>
                /\ pc = "pm_return"
                /\ trace = <<>>

\* C16 witness: a text with letters and a run of six digits before the phone
\* number was handed over and dropped
C16_Witness ==
    /\ message # NoMessage
    /\ pc = "pm_return"
    /\ FirstPhone(message.text) > 1
    /\ HasLetterPrefix(message.text)
    /\ DigitsAt(HeaderRegion(message.text), 4, 6)
    /\ ~HasCaseRun(HeaderRegion(message.text))
    /\ trace = <<>>

C17_HandedOnce == \A i, j \in 1..Len(handed) : i # j => handed[i] # handed[j]

C17_PollStep ==
    /\ last_timestamp' >= last_timestamp
    /\ (pc = "poll" /\ pc' # "poll") =>
          /\ \A i \in 1..Len(messages') :
                messages'[i] # last_timestamp /\ messages'[i] > last_timestamp
          /\ \A i, j \in 1..Len(messages') : i < j => messages'[i] < messages'[j]
          /\ handed' = handed
    /\ handed' # handed =>
          /\ pc = "loop"
          /\ handed' = Append(handed, messages[mi])
          /\ messages[mi] <= last_timestamp

\* C17: over any ticks, failed fetches among them, no message of the source
\* channel is handed to process_message twice, last_timestamp never goes back,
\* and no batch holds the message whose timestamp is the cursor.
C17_AtMostOnce == []C17_HandedOnce /\ [][C17_PollStep]_vars

\* C17 witness: a second batch starts right after the message of the cursor,
\* which the fetch returned again and the filter dropped
C17_Witness ==
    /\ pc = "loop" /\ mi = 1
    /\ handed # <<>>
    /\ messages # <<>>
    /\ messages[1] = handed[Len(handed)] + 1
    /\ last_timestamp = messages[Len(messages)]

\* an exception leaves process_message and reaches `except Exception` of the
\* main loop
ErrorReachesMainLoop ==
    pc \in {"case", "refresh", "resolved", "topic", "post"} /\ pc' = "sleep"

\* C18: when the processing of a message of a batch raises an error that reaches
\* the main loop, every later message of the batch is still to be handed to
\* process_message: it is ahead in the batch at hand, or it is newer than the
\* cursor and a later tick fetches it.
C18_ErrorKeepsBatch ==
    [][ErrorReachesMainLoop =>
          \A i \in (mi + 1)..Len(messages) :
              \/ \E k \in 1..Len(messages') : k >= mi' /\ messages'[k] = messages[i]
              \/ messages[i] > last_timestamp']_vars

\* text starts with prefix
StartsWith(text, prefix) ==
    /\ Len(text) >= Len(prefix)
    /\ SubSeq(text, 1, Len(prefix)) = prefix

C19_RoutingInv ==
    pc = "post" =>
        LET parsed == parse_quo_message(get_message_text(message))
            c == case_numbers[ci]
            named == {i \in 1..Len(channel_cache) : channel_cache[i].id = case_channel_id}
        IN  /\ \E k \in 1..Len(parsed.case_numbers) : parsed.case_numbers[k] = c
            /\ channel_cache = IF refreshes = 0 THEN entry_cache ELSE snapshot
            /\ named # {}
            /\ \A i \in named :
                  /\ channel_cache[i].name = case_channel_name
                  /\ IsCaseChannel(channel_cache[i].name, c)
            /\ StartsWith(forwarded_message,
                          <<Emoji, " ", "*">> \o parsed.contact_name
                              \o <<"*", " ", "(", "C", "a", "s", "e", " ">> \o c
                              \o <<")", ":", "\n", "\n">> \o parsed.message_body)
            /\ case_channel_id = source_channel_id =>
                  \E i \in 1..Len(channel_cache) :
                      /\ channel_cache[i].id = source_channel_id
                      /\ IsCaseChannel(channel_cache[i].name, c)

C19_RoutingStep ==
    /\ (pc = "post" /\ pc' # "post") =>
          /\ trace' = Append(trace, Last(trace'))
          /\ Last(trace').op = "post"
          /\ Last(trace').ch = case_channel_id
          /\ Last(trace').case = case_numbers[ci]
    /\ (Len(trace') > Len(trace) /\ Last(trace').op = "post") => pc = "post"

\* C19: every post attempt goes to a channel id whose name, in the cache the
\* resolution used, ends with "-<case_id>" for a case id parsed from the
\* notification at hand, with a text that names that case id, the contact name
\* and the body of that notification; the source channel is posted to only when
\* its own cached name ends with "-<case_id>".
C19_RoutingSafety == []C19_RoutingInv /\ [][C19_RoutingStep]_vars

\* C19 witness: a post went to the source channel, whose name had come to end
\* with the case id of the notification
C19_Witness ==
    \E j \in 1..Len(trace) :
        /\ trace[j].op = "post" /\ trace[j].ok
        /\ trace[j].ch = source_channel_id
        /\ trace[j].case = parse_quo_message(get_message_text(message)).case_numbers[trace[j].ci]

====
